---- MODULE Spec2Model ----
(***************************************************************************)
(* A model of gs-optimize.py: the command line loop, optimize_folder with  *)
(* its pool of five workers, optimize_file run by a worker or by the main  *)
(* thread, and convert_from_bytes.                                         *)
(*                                                                         *)
(* Strings are sequences of one-character strings, so that endswith,       *)
(* startswith, basename, dirname and join are computed, not assumed.       *)
(***************************************************************************)
EXTENDS Integers, Sequences, FiniteSets, TLC

VARIABLES
    args_src,            \* args.src: the positional paths
    args_verbose,        \* args.verbose
    cwd,                 \* os.getcwd()
    item_idx,            \* position of the `for item in args.src` loop
    handled,             \* history: the positions whose call has returned, in order
    pc,                  \* where the main thread is
    exit_status,         \* process exit status once pc = "exited"
    fs,                  \* the file system: path -> [type, data, size]
    gs,                  \* what Ghostscript does for each source path
    listing,             \* what os.listdir() returned to optimize_folder
    scan_idx,            \* position of the `for file in os.listdir(...)` loop
    jobs,                \* optimize_file calls: the futures list, or the one direct call
    mode,                \* "batch" or "file": who runs the jobs
    source_folder_path,  \* optimize_folder's argument
    collected,           \* futures already yielded by as_completed
    total_initial_size,
    total_final_size,
    uuid_count,          \* number of uuid4() calls made
    printed,             \* what clear_print has written: a set of <<kind, subject>>
    fmt_in,              \* convert_from_bytes: the argument, as base-1000 digits
    fmt_out              \* convert_from_bytes: the value returned

vars == <<args_src, args_verbose, cwd, item_idx, handled, pc, exit_status, fs, gs, listing,
          scan_idx, jobs, mode, source_folder_path, collected, total_initial_size,
          total_final_size, uuid_count, printed, fmt_in, fmt_out>>

main_vars == <<args_src, args_verbose, cwd, item_idx, handled, pc, exit_status, fs, gs, listing,
               scan_idx, jobs, mode, source_folder_path, collected, total_initial_size,
               total_final_size, uuid_count, printed>>

fmt_vars == <<fmt_in, fmt_out>>

(***************************************************************************)
(* Bounds of the model.                                                    *)
(***************************************************************************)
MaxSize == 3        \* file sizes are 1..MaxSize
SmallFiles == 2     \* candidate PDFs of the small directories
PoolFiles == 6      \* candidate PDFs of the large directory (more than the pool holds)
MaxArgs == 2        \* number of positional paths
MaxUnits == 6       \* base-1000 digits of a byte count given to convert_from_bytes
LargeSize == 30000  \* bytes of the one large PDF

(***************************************************************************)
(* Strings.                                                                *)
(***************************************************************************)
\* None, and the result of a function that has not returned
None == <<>>

\* str.endswith
EndsWith(s, suffix) ==
    /\ Len(s) >= Len(suffix)
    /\ SubSeq(s, Len(s) - Len(suffix) + 1, Len(s)) = suffix

\* str.startswith
StartsWith(s, prefix) ==
    /\ Len(s) >= Len(prefix)
    /\ SubSeq(s, 1, Len(prefix)) = prefix

SEP == "/"

\* index of the last separator of a path, 0 when it has none
LastSep(p) ==
    LET S == {i \in 1..Len(p) : p[i] = SEP}
    IN  IF S = {} THEN 0 ELSE CHOOSE i \in S : \A k \in S : k <= i

\* os.path.basename
basename(p) == SubSeq(p, LastSep(p) + 1, Len(p))

\* os.path.dirname
dirname(p) ==
    LET i == LastSep(p)
    IN  IF i = 0 THEN <<>> ELSE IF i = 1 THEN <<SEP>> ELSE SubSeq(p, 1, i - 1)

\* os.path.join of a directory and a name
join(d, name) ==
    IF d = <<>> THEN name
    ELSE IF d[Len(d)] = SEP THEN d \o name
    ELSE d \o <<SEP>> \o name

HexDigits == <<"0", "1", "2", "3", "4", "5", "6", "7",
               "8", "9", "a", "b", "c", "d", "e", "f">>

\* uuid4().hex of the n-th identifier drawn: two hexadecimal digits in the
\* model, and no two identifiers alike (122 random bits in the code)
hex(n) == <<HexDigits[((n \div 16) % 16) + 1], HexDigits[(n % 16) + 1]>>

PDF == <<"p", "d", "f">>
DOT_PDF == <<".", "p", "d", "f">>
TEMP_ == <<"t", "e", "m", "p", "_">>

\* mutant: one temp name for every call, no identifier in it
unique_filename_fixed(ext, prefix, h) == prefix \o <<".">> \o ext

\* unique_filename(ext, prefix), with the uuid's hex text given
unique_filename(ext, prefix, h) == prefix \o <<" ">> \o h \o <<" ", ".">> \o ext

(***************************************************************************)
(* convert_from_bytes.  A byte count is given by its base-1000 digits, the *)
(* most significant first, so that counts of 1000^5 and more are within    *)
(* reach; dividing by 1000 moves the last digit of the whole part to the   *)
(* front of the fraction.                                                  *)
(***************************************************************************)
UNITS == <<"bytes", "KB", "MB", "GB", "TB">>

\* the digits the counts of the model are made of: none gives a value that
\* lies exactly between two hundredths, where the binary fraction decides
FmtDigits == {0, 1, 2, 500, 950, 999}

ByteCounts ==
    UNION {{d \in [1..n -> FmtDigits] : n > 1 => d[1] # 0} : n \in 1..MaxUnits}

FmtPending == [state |-> "pending", none |-> FALSE, whole |-> 0, cents |-> 0, unit |-> ""]

\* the function has returned None
FmtNone == [state |-> "returned", none |-> TRUE, whole |-> 0, cents |-> 0, unit |-> ""]

\* some digit of the fraction after the first is not 0
RestNonZero(frac) == \E i \in 2..Len(frac) : frac[i] # 0

\* the value in hundredths, rounded to the nearest
Hundredths(whole, frac) ==
    LET w == IF whole = <<>> THEN 0 ELSE whole[1]
        f == IF frac = <<>> THEN 0 ELSE frac[1]
        up == (f % 10 > 5) \/ (f % 10 = 5 /\ RestNonZero(frac))
    IN  w * 100 + (f \div 10) + (IF up THEN 1 ELSE 0)

\* line 75: f"{bytes:.2f} {unit}"
Format(whole, frac, unit) ==
    LET h == Hundredths(whole, frac)
    IN  [state |-> "returned", none |-> FALSE,
         whole |-> h \div 100, cents |-> h % 100, unit |-> unit]

RECURSIVE FmtLoop(_, _, _)
\* lines 73-76: the loop over the units; falling out of it returns None
FmtLoop(whole, frac, units) ==
    IF units = <<>> THEN FmtNone
    ELSE IF Len(whole) <= 1 THEN Format(whole, frac, Head(units))
    ELSE FmtLoop(SubSeq(whole, 1, Len(whole) - 1),
                 <<whole[Len(whole)]>> \o frac, Tail(units))

\* lines 65-76
convert_from_bytes(bytes) == FmtLoop(bytes, <<>>, UNITS)

(***************************************************************************)
(* The file system.  A file's data is the history of what produced it:     *)
(* <<name>> for an original, with "gs" appended for the compressor's       *)
(* complete output and "partial" for what a failed or killed run left.     *)
(***************************************************************************)
File(data, size) == [type |-> "file", data |-> data, size |-> size]
Dir == [type |-> "dir", data |-> <<>>, size |-> 0]

\* os.path.exists
exists(f, p) == p \in DOMAIN f

\* os.path.isdir: "." is the working directory, which exists
isdir(f, p) == p = <<".">> \/ (exists(f, p) /\ f[p].type = "dir")

\* os.path.isfile
isfile(f, p) == exists(f, p) /\ f[p].type = "file"

\* os.path.getsize
getsize(f, p) == f[p].size

\* os.remove
remove(f, p) == [q \in DOMAIN f \ {p} |-> f[q]]

\* os.rename(a, b)
rename(f, a, b) == [q \in (DOMAIN f \ {a}) \cup {b} |-> IF q = b THEN f[a] ELSE f[q]]

\* a process creating the file p
write(f, p, file) == [q \in DOMAIN f \cup {p} |-> IF q = p THEN file ELSE f[q]]

\* the names os.listdir(d) returns, as a set
listdir(f, d) == {basename(p) : p \in {q \in DOMAIN f : q # d /\ dirname(q) = d}}

RECURSIVE SetToSeq(_)
SetToSeq(S) ==
    IF S = {} THEN <<>>
    ELSE LET x == CHOOSE y \in S : TRUE IN <<x>> \o SetToSeq(S \ {x})

Reverse(s) == [i \in 1..Len(s) |-> s[Len(s) + 1 - i]]

\* os.listdir returns the names in arbitrary order: two opposite orders here
ListOrders(S) == {SetToSeq(S), Reverse(SetToSeq(S))}

(***************************************************************************)
(* The worlds the program is started in.                                   *)
(***************************************************************************)
Letters == <<"a", "b", "c", "e", "f", "g", "h", "i", "j", "k">>

\* the directory given on the command line and its entries
D == <<"d">>
Cand(i) == <<Letters[i]>> \o DOT_PDF
StaleTemp == unique_filename(PDF, TEMP_, <<"f", "f">>)    \* left by an interrupted run
Notes == <<"n", ".", "t", "x", "t">>
UpperPdf == <<"u", ".", "P", "D", "F">>
TempTxt == TEMP_ \o <<".", "t", "x", "t">>
Missing == <<"z">>

\* the size a candidate has at the start: 2..MaxSize
SrcSize(i) == 2 + (i % (MaxSize - 1))

\* the directory D with its first n candidates and the entries that are none
World(n) ==
    LET files == [p \in {join(D, Cand(i)) : i \in 1..n} |->
                    LET i == CHOOSE k \in 1..n : p = join(D, Cand(k))
                    IN  File(<<Letters[i]>>, SrcSize(i))]
        other == (join(D, StaleTemp) :> File(<<"stale">>, 1))
                 @@ (join(D, Notes) :> File(<<"notes">>, 2))
                 @@ (join(D, UpperPdf) :> File(<<"upper">>, 2))
                 @@ (join(D, TempTxt) :> File(<<"temptxt">>, 2))
                 @@ (D :> Dir)
    IN  files @@ other

\* what one run of Ghostscript does: it exits with a status within the 60 s or
\* hangs, and has or has not created the output file, of some size
Outcomes ==
    {[hangs |-> FALSE, status |-> 0, wrote |-> TRUE, size |-> s] : s \in 1..MaxSize}
    \cup {[hangs |-> FALSE, status |-> 1, wrote |-> w, size |-> 1] : w \in BOOLEAN}
    \cup {[hangs |-> TRUE, status |-> 1, wrote |-> w, size |-> 1] : w \in BOOLEAN}

\* Ghostscript given a directory as its input fails without output
GsOnDir == [hangs |-> FALSE, status |-> 1, wrote |-> FALSE, size |-> 1]

\* the directory D whose one candidate is large
LargeWorld == [World(1) EXCEPT ![join(D, Cand(1))].size = LargeSize]

\* Ghostscript saves one byte of the large PDF
LargeOutcome == [hangs |-> FALSE, status |-> 0, wrote |-> TRUE, size |-> LargeSize - 1]

CwdPlain == <<"/", "w">>
CwdPdf == <<"/", "w">> \o DOT_PDF

Items == {<<".">>, D, join(D, Cand(1)), join(D, Notes), Missing}

ArgSeqs == UNION {[1..n -> Items] : n \in 1..MaxArgs}

(***************************************************************************)
(* optimize_file.  A call is a record of its local variables; `original`   *)
(* is history, the source file as it was when the call read its size, and  *)
(* so are `replaced` (line 139 was run) and `deleted` (line 156 was run).  *)
(***************************************************************************)
Msg(kind, name, a, b) == [kind |-> kind, name |-> name, a |-> a, b |-> b]

\* a call of optimize_file that a worker has not started yet
Queued(path, verbose) ==
    [source_file_path |-> path, verbose |-> verbose, pc |-> "queued",
     source_file_size |-> 0, output_file_path |-> <<>>, exitcode |-> None,
     returncode |-> None, terminated |-> FALSE, output_file_size |-> 0,
     result |-> None, raised |-> FALSE, original |-> Dir,
     replaced |-> FALSE, deleted |-> FALSE]

\* mutant: the suffix check left out
IsPdfPath_unchecked(source_file_path) == TRUE

\* line 104: the path is taken for a PDF by its suffix
IsPdfPath(source_file_path) == EndsWith(source_file_path, DOT_PDF)

\* lines 107-116: the size is read, the temp path made, Ghostscript started
Launched(job, f, n) ==
    [job EXCEPT !.pc = "launched",
                !.source_file_size = getsize(f, job.source_file_path),
                !.output_file_path = join(dirname(job.source_file_path),
                                          unique_filename(PDF, TEMP_, hex(n))),
                !.original = f[job.source_file_path]]

\* what the Ghostscript process leaves at the output path
GsOutput(f, job, o) ==
    IF o.wrote
    THEN write(f, job.output_file_path,
               File(Append(f[job.source_file_path].data,
                           IF ~o.hangs /\ o.status = 0 THEN "gs" ELSE "partial"),
                    o.size))
    ELSE f

\* mutant: a process terminated after the 60 s is taken to have exited with 0
Waited_zero(job) ==
    IF job.exitcode = None
    THEN [job EXCEPT !.terminated = TRUE, !.returncode = <<0>>]
    ELSE [job EXCEPT !.returncode = job.exitcode]

\* lines 120-123: process.wait(60) sets returncode when the process has exited;
\* on TimeoutExpired the process is terminated and returncode stays None
Waited(job) ==
    IF job.exitcode = None
    THEN [job EXCEPT !.terminated = TRUE, !.returncode = None]
    ELSE [job EXCEPT !.returncode = job.exitcode]

\* mutant: only a status of 1 counts as failure, None does not
ProcessFailed_only1(returncode) == returncode = <<1>>

\* line 126
ProcessFailed(returncode) == ~(returncode = <<0>>)

\* mutant: > for <
IsSmaller_larger(output_file_size, source_file_size) ==
    output_file_size > source_file_size

\* mutant: <= for <
IsSmaller_orEqual(output_file_size, source_file_size) ==
    output_file_size <= source_file_size

\* line 134
IsSmaller(output_file_size, source_file_size) == output_file_size < source_file_size

\* mutant: the pair the other way round
SizePair_swapped(source_file_size, output_file_size) ==
    <<output_file_size, source_file_size>>

\* line 150
SizePair(source_file_size, output_file_size) == <<source_file_size, output_file_size>>

\* The call returns.  In file mode it is the main thread's call, and the
\* command line loop goes on.
Returns ==
    IF mode = "file"
    THEN /\ pc' = "dispatch"
         /\ item_idx' = item_idx + 1
         /\ handled' = Append(handled, item_idx)
         /\ UNCHANGED exit_status
    ELSE UNCHANGED <<pc, item_idx, handled, exit_status>>

\* The call raises.  A worker keeps the exception in the future; in the main
\* thread nothing catches it and the interpreter exits with status 1.
Raises ==
    IF mode = "file"
    THEN /\ pc' = "exited"
         /\ exit_status' = <<1>>
         /\ UNCHANGED <<item_idx, handled>>
    ELSE UNCHANGED <<pc, item_idx, handled, exit_status>>

\* line 172
max_workers == 5

Executing == {j \in 1..Len(jobs) : jobs[j].pc \notin {"queued", "done"}}

\* mutant: a thread per submitted call
WorkerFree_unbounded == TRUE

\* ThreadPoolExecutor: a worker thread is idle or can still be created
WorkerFree == Cardinality(Executing) < max_workers

\* a pool worker takes the oldest queued call and runs lines 103-116
Start(j) ==
    /\ mode = "batch"
    /\ j \in 1..Len(jobs)
    /\ jobs[j].pc = "queued"
    /\ \A i \in 1..(j - 1) : jobs[i].pc # "queued"
    /\ WorkerFree
    /\ IF IsPdfPath(jobs[j].source_file_path)
       THEN /\ jobs' = [jobs EXCEPT ![j] = Launched(jobs[j], fs, uuid_count)]
            /\ uuid_count' = uuid_count + 1
            /\ printed' = printed \cup
                   {Msg("optimizing", basename(jobs[j].source_file_path), 0, 0)}
       ELSE \* sys.exit in a worker: SystemExit is kept in the future
            /\ jobs' = [jobs EXCEPT ![j].pc = "done", ![j].raised = TRUE]
            /\ UNCHANGED <<uuid_count, printed>>
    /\ UNCHANGED <<args_src, args_verbose, cwd, item_idx, handled, pc, exit_status, fs, gs,
                   listing, scan_idx, mode, source_folder_path, collected,
                   total_initial_size, total_final_size, fmt_in, fmt_out>>

\* what Ghostscript does with a source: what is no PDF of the world fails
GsFor(p) == IF p \in DOMAIN gs THEN gs[p] ELSE GsOnDir

\* the Ghostscript process runs: it exits within the 60 s, or the 60 s pass
ToolRun(j) ==
    /\ j \in 1..Len(jobs)
    /\ jobs[j].pc = "launched"
    /\ LET o == GsFor(jobs[j].source_file_path)
       IN  /\ fs' = GsOutput(fs, jobs[j], o)
           /\ jobs' = [jobs EXCEPT ![j].pc = "waited",
                                   ![j].exitcode = IF o.hangs THEN None
                                                   ELSE <<o.status>>]
    /\ UNCHANGED <<args_src, args_verbose, cwd, item_idx, handled, pc, exit_status, gs,
                   listing, scan_idx, mode, source_folder_path, collected,
                   total_initial_size, total_final_size, uuid_count, printed,
                   fmt_in, fmt_out>>

\* lines 120-136 and 151-158: after the wait, up to the first change of a file
Finish(j) ==
    /\ j \in 1..Len(jobs)
    /\ jobs[j].pc = "waited"
    /\ LET job == Waited(jobs[j])
           name == basename(job.source_file_path)
           output_file_size == getsize(fs, job.output_file_path)
       IN  IF ProcessFailed(job.returncode)
           THEN /\ jobs' = [jobs EXCEPT ![j] = [job EXCEPT !.pc = "done"]]
                /\ Returns
                /\ UNCHANGED <<fs, printed>>
           ELSE IF ~exists(fs, job.output_file_path)
           THEN \* line 130: os.path.getsize raises FileNotFoundError
                /\ jobs' = [jobs EXCEPT ![j] = [job EXCEPT !.pc = "done",
                                                           !.raised = TRUE]]
                /\ Raises
                /\ UNCHANGED <<fs, printed>>
           ELSE IF IsSmaller(output_file_size, job.source_file_size)
           THEN /\ fs' = remove(fs, job.source_file_path)
                /\ jobs' = [jobs EXCEPT ![j] =
                               [job EXCEPT !.pc = "rename",
                                           !.output_file_size = output_file_size]]
                /\ UNCHANGED <<pc, item_idx, handled, exit_status, printed>>
           ELSE /\ printed' = IF job.verbose
                              THEN printed \cup {Msg("no_optimization", name, 0, 0)}
                              ELSE printed
                /\ fs' = remove(fs, job.output_file_path)
                /\ jobs' = [jobs EXCEPT ![j] =
                               [job EXCEPT !.pc = "done",
                                           !.output_file_size = output_file_size,
                                           !.deleted = TRUE]]
                /\ Returns
    /\ UNCHANGED <<args_src, args_verbose, cwd, gs, listing, scan_idx, mode,
                   source_folder_path, collected, total_initial_size,
                   total_final_size, uuid_count, fmt_in, fmt_out>>

\* lines 139-150
Rename(j) ==
    /\ j \in 1..Len(jobs)
    /\ jobs[j].pc = "rename"
    /\ LET job == jobs[j]
       IN  /\ fs' = rename(fs, job.output_file_path, job.source_file_path)
           /\ printed' = IF job.verbose
                         THEN printed \cup
                              {Msg("sizes", basename(job.source_file_path),
                                   job.source_file_size, job.output_file_size)}
                         ELSE printed
           /\ jobs' = [jobs EXCEPT ![j].pc = "done",
                                   ![j].replaced = TRUE,
                                   ![j].result = SizePair(job.source_file_size,
                                                          job.output_file_size)]
    /\ Returns
    /\ UNCHANGED <<args_src, args_verbose, cwd, gs, listing, scan_idx, mode,
                   source_folder_path, collected, total_initial_size,
                   total_final_size, uuid_count, fmt_in, fmt_out>>

(***************************************************************************)
(* optimize_folder.                                                        *)
(***************************************************************************)
\* mutant: the temp_ test left out
IsCandidate_anyPdf(file) == EndsWith(file, DOT_PDF)

\* line 176
IsCandidate(file) == ~StartsWith(file, TEMP_) /\ EndsWith(file, DOT_PDF)

\* lines 174-178: one turn of the loop over os.listdir
Scan ==
    /\ pc = "scan"
    /\ scan_idx <= Len(listing)
    /\ LET file == listing[scan_idx]
       IN  jobs' = IF IsCandidate(file)
                   THEN Append(jobs, Queued(join(source_folder_path, file), args_verbose))
                   ELSE jobs
    /\ scan_idx' = scan_idx + 1
    /\ UNCHANGED <<args_src, args_verbose, cwd, item_idx, handled, pc, exit_status, fs, gs,
                   listing, mode, source_folder_path, collected, total_initial_size,
                   total_final_size, uuid_count, printed, fmt_in, fmt_out>>

AllDone == \A j \in 1..Len(jobs) : jobs[j].pc = "done"

\* line 172, leaving the with block: shutdown(wait=True) returns once every
\* submitted call has finished
Shutdown ==
    /\ pc = "scan"
    /\ scan_idx > Len(listing)
    /\ AllDone
    /\ pc' = "collect"
    /\ UNCHANGED <<args_src, args_verbose, cwd, item_idx, handled, exit_status, fs, gs, listing, scan_idx,
                   jobs, mode, source_folder_path, collected, total_initial_size,
                   total_final_size, uuid_count, printed, fmt_in, fmt_out>>

\* line 185: `not result`
IsAbsent(result) == result = None

\* mutant: the second component added to the initial total as well
AddInitial_final(total, result) == total + result[2]

\* line 188
AddInitial(total, result) == total + result[1]

\* mutant: the first component added to both totals
AddFinal_first(total, result) == total + result[1]

\* line 189
AddFinal(total, result) == total + result[2]

\* lines 181-189: as_completed yields a finished future not yet yielded;
\* future.result() raises again what the call raised, and nothing catches it
Collect(i) ==
    /\ pc = "collect"
    /\ i \in 1..Len(jobs)
    /\ i \notin collected
    /\ jobs[i].pc = "done"
    /\ collected' = collected \cup {i}
    /\ LET result == jobs[i].result
       IN  IF jobs[i].raised
           THEN /\ pc' = "exited"
                /\ exit_status' = <<1>>
                /\ UNCHANGED <<total_initial_size, total_final_size>>
           ELSE IF IsAbsent(result)
           THEN UNCHANGED <<pc, exit_status, total_initial_size, total_final_size>>
           ELSE /\ total_initial_size' = AddInitial(total_initial_size, result)
                /\ total_final_size' = AddFinal(total_final_size, result)
                /\ UNCHANGED <<pc, exit_status>>
    /\ UNCHANGED <<args_src, args_verbose, cwd, item_idx, handled, fs, gs,
                   listing, scan_idx, jobs, mode, source_folder_path, uuid_count,
                   printed, fmt_in, fmt_out>>

\* mutant: the division guarded, a ratio of 0 reported for no bytes
RatioFaults_guarded(initial) == FALSE

\* line 196: total_final_size / total_initial_size raises ZeroDivisionError
RatioFaults(initial) == initial = 0

\* line 196: 100 * (1 - total_final_size / total_initial_size) as "{:.2f}"
\* renders it, in hundredths of a percent: the nearest one (a tie, which the
\* code rounds by the binary value, goes up here)
CompressionRatio(initial, final) ==
    IF initial = 0 THEN 0
    ELSE (2 * 10000 * (initial - final) + initial) \div (2 * initial)

\* lines 192-198: the header is printed, then the statistics line is built:
\* with total_initial_size = 0 the division raises ZeroDivisionError, which
\* nothing catches, and the interpreter exits with status 1
Summary ==
    /\ pc = "collect"
    /\ collected = 1..Len(jobs)
    /\ IF RatioFaults(total_initial_size)
       THEN /\ printed' = printed \cup {Msg("stats_header", <<>>, 0, 0)}
            /\ pc' = "exited"
            /\ exit_status' = <<1>>
            /\ UNCHANGED <<item_idx, handled>>
       ELSE /\ printed' = printed \cup
                   {Msg("stats_header", <<>>, 0, 0),
                    Msg("summary", <<>>, total_initial_size, total_final_size),
                    Msg("ratio", <<>>,
                        CompressionRatio(total_initial_size, total_final_size), 0)}
            /\ pc' = "dispatch"
            /\ item_idx' = item_idx + 1
            /\ handled' = Append(handled, item_idx)
            /\ UNCHANGED exit_status
    /\ UNCHANGED <<args_src, args_verbose, cwd, fs, gs, listing, scan_idx, jobs, mode,
                   source_folder_path, collected, total_initial_size,
                   total_final_size, uuid_count, fmt_in, fmt_out>>

(***************************************************************************)
(* __main__.                                                               *)
(***************************************************************************)
AtItem == pc = "dispatch" /\ item_idx <= Len(args_src)

\* sys.exit(message): the message goes to stderr, the status is 1
SysExit ==
    /\ pc' = "exited"
    /\ exit_status' = <<1>>

\* optimize_file called by the main thread, lines 103-116
CallOptimizeFile(source_file_path, verbose) ==
    IF ~IsPdfPath(source_file_path)
    THEN /\ SysExit
         /\ UNCHANGED <<jobs, mode, uuid_count, printed>>
    ELSE /\ jobs' = <<Launched(Queued(source_file_path, verbose), fs, uuid_count)>>
         /\ mode' = "file"
         /\ pc' = "file"
         /\ uuid_count' = uuid_count + 1
         /\ printed' = printed \cup {Msg("optimizing", basename(source_file_path), 0, 0)}
         /\ UNCHANGED exit_status

\* mutant: "." handled like a file path, with verbose forced on
DispatchDot_forced ==
    /\ AtItem
    /\ args_src[item_idx] = <<".">>
    /\ CallOptimizeFile(cwd, TRUE)
    /\ UNCHANGED <<args_src, args_verbose, cwd, item_idx, handled, fs, gs, listing, scan_idx,
                   source_folder_path, collected, total_initial_size,
                   total_final_size, fmt_in, fmt_out>>

\* lines 239-240
DispatchDot ==
    /\ AtItem
    /\ args_src[item_idx] = <<".">>
    /\ CallOptimizeFile(cwd, args_verbose)
    /\ UNCHANGED <<args_src, args_verbose, cwd, item_idx, handled, fs, gs, listing, scan_idx,
                   source_folder_path, collected, total_initial_size,
                   total_final_size, fmt_in, fmt_out>>

\* lines 241-242 and 168-174
DispatchDir ==
    /\ AtItem
    /\ args_src[item_idx] # <<".">>
    /\ isdir(fs, args_src[item_idx])
    /\ source_folder_path' = args_src[item_idx]
    /\ total_initial_size' = 0
    /\ total_final_size' = 0
    /\ jobs' = <<>>
    /\ collected' = {}
    /\ mode' = "batch"
    /\ listing' \in ListOrders(listdir(fs, args_src[item_idx]))
    /\ scan_idx' = 1
    /\ pc' = "scan"
    /\ UNCHANGED <<args_src, args_verbose, cwd, item_idx, handled, exit_status, fs, gs,
                   uuid_count, printed, fmt_in, fmt_out>>

\* lines 243-244
DispatchFile ==
    /\ AtItem
    /\ args_src[item_idx] # <<".">>
    /\ ~isdir(fs, args_src[item_idx])
    /\ isfile(fs, args_src[item_idx])
    /\ CallOptimizeFile(args_src[item_idx], TRUE)
    /\ UNCHANGED <<args_src, args_verbose, cwd, item_idx, handled, fs, gs, listing, scan_idx,
                   source_folder_path, collected, total_initial_size,
                   total_final_size, fmt_in, fmt_out>>

\* mutant: a path that is neither directory nor file is passed over
DispatchInvalid_skips ==
    /\ AtItem
    /\ args_src[item_idx] # <<".">>
    /\ ~isdir(fs, args_src[item_idx])
    /\ ~isfile(fs, args_src[item_idx])
    /\ item_idx' = item_idx + 1
    /\ UNCHANGED <<args_src, args_verbose, cwd, handled, pc, exit_status, fs, gs, listing,
                   scan_idx, jobs, mode, source_folder_path, collected,
                   total_initial_size, total_final_size, uuid_count, printed,
                   fmt_in, fmt_out>>

\* lines 245-246
DispatchInvalid ==
    /\ AtItem
    /\ args_src[item_idx] # <<".">>
    /\ ~isdir(fs, args_src[item_idx])
    /\ ~isfile(fs, args_src[item_idx])
    /\ SysExit
    /\ UNCHANGED <<args_src, args_verbose, cwd, item_idx, handled, fs, gs, listing, scan_idx, jobs, mode,
                   source_folder_path, collected, total_initial_size,
                   total_final_size, uuid_count, printed, fmt_in, fmt_out>>

\* the loop of line 238 is over: the script ends with status 0
ProgramEnd ==
    /\ pc = "dispatch"
    /\ item_idx > Len(args_src)
    /\ pc' = "exited"
    /\ exit_status' = <<0>>
    /\ UNCHANGED <<args_src, args_verbose, cwd, item_idx, handled, fs, gs, listing, scan_idx, jobs, mode,
                   source_folder_path, collected, total_initial_size,
                   total_final_size, uuid_count, printed, fmt_in, fmt_out>>

(***************************************************************************)
(* The specification.                                                      *)
(***************************************************************************)
CandPaths(n) == {join(D, Cand(i)) : i \in 1..n}

\* every candidate is treated alike by Ghostscript
Uniform(n) == {[p \in CandPaths(n) |-> o] : o \in Outcomes}

\* in the large directory every run gives a smaller file, or every run hangs
PoolOutcomes ==
    {[hangs |-> FALSE, status |-> 0, wrote |-> TRUE, size |-> 1],
     [hangs |-> TRUE, status |-> 1, wrote |-> TRUE, size |-> 1]}

InitRun ==
    /\ item_idx = 1
    /\ handled = <<>>
    /\ pc = "dispatch"
    /\ exit_status = None
    /\ listing = <<>>
    /\ scan_idx = 1
    /\ jobs = <<>>
    /\ mode = "none"
    /\ source_folder_path = <<>>
    /\ collected = {}
    /\ total_initial_size = 0
    /\ total_final_size = 0
    /\ uuid_count = 0
    /\ printed = {}
    /\ fmt_in = <<>>
    /\ fmt_out = FmtPending

\* one small directory, every combination of what Ghostscript does
InitDetail ==
    /\ args_src = <<D>>
    /\ args_verbose \in BOOLEAN
    /\ cwd = CwdPlain
    /\ fs = World(SmallFiles) @@ (cwd :> Dir)
    /\ \E g \in [CandPaths(SmallFiles) -> Outcomes] : gs = g @@ (cwd :> GsOnDir)

\* one directory with more candidates than the pool has workers
InitPool ==
    /\ args_src = <<D>>
    /\ args_verbose = FALSE
    /\ cwd = CwdPlain
    /\ fs = World(PoolFiles) @@ (cwd :> Dir)
    /\ \E o \in PoolOutcomes :
          gs = [p \in CandPaths(PoolFiles) |-> o] @@ (cwd :> GsOnDir)

\* every command line of up to MaxArgs paths, over a directory of one
\* candidate or of none
InitDispatch ==
    /\ args_src \in ArgSeqs
    /\ args_verbose \in BOOLEAN
    /\ cwd \in {CwdPlain, CwdPdf}
    /\ \E n \in 0..1 :
          /\ fs = World(n) @@ (cwd :> Dir)
          /\ \E g \in Uniform(n) : gs = g @@ (cwd :> GsOnDir)

\* one directory whose one candidate is large and shrinks by a single byte
InitLarge ==
    /\ args_src = <<D>>
    /\ args_verbose \in BOOLEAN
    /\ cwd = CwdPlain
    /\ fs = LargeWorld @@ (cwd :> Dir)
    /\ gs = (join(D, Cand(1)) :> LargeOutcome) @@ (cwd :> GsOnDir)

Init == InitRun /\ (InitDetail \/ InitPool \/ InitDispatch \/ InitLarge)

Next ==
    \/ DispatchDot
    \/ DispatchDir
    \/ DispatchFile
    \/ DispatchInvalid
    \/ ProgramEnd
    \/ Scan
    \/ Shutdown
    \/ \E i \in 1..Len(jobs) : Collect(i)
    \/ Summary
    \/ \E j \in 1..Len(jobs) : Start(j)
    \/ \E j \in 1..Len(jobs) : ToolRun(j)
    \/ \E j \in 1..Len(jobs) : Finish(j)
    \/ \E j \in 1..Len(jobs) : Rename(j)

Spec == Init /\ [][Next]_vars

\* convert_from_bytes applied to a byte count
Convert ==
    /\ fmt_out.state = "pending"
    /\ fmt_out' = convert_from_bytes(fmt_in)
    /\ UNCHANGED <<main_vars, fmt_in>>

InitFmt ==
    /\ item_idx = 1
    /\ handled = <<>>
    /\ pc = "exited"
    /\ exit_status = None
    /\ listing = <<>>
    /\ scan_idx = 1
    /\ jobs = <<>>
    /\ mode = "none"
    /\ source_folder_path = <<>>
    /\ collected = {}
    /\ total_initial_size = 0
    /\ total_final_size = 0
    /\ uuid_count = 0
    /\ printed = {}
    /\ args_src = <<>>
    /\ args_verbose = FALSE
    /\ cwd = CwdPlain
    /\ fs = (cwd :> Dir)
    /\ gs = (cwd :> GsOnDir)
    /\ fmt_in \in ByteCounts
    /\ fmt_out = FmtPending

SpecFmt == InitFmt /\ [][Convert]_vars

\* a step of a call of optimize_file or of its Ghostscript process
JobStep ==
    \E j \in 1..Len(jobs) : Start(j) \/ ToolRun(j) \/ Finish(j) \/ Rename(j)

\* optimize_folder alone, on the directory with more candidates than workers.
\* Fairness: the pool's threads are scheduled, and every Ghostscript process
\* exits or is waited for no longer than 60 s.
BatchNext ==
    \/ DispatchDir
    \/ ProgramEnd
    \/ Scan
    \/ Shutdown
    \/ \E i \in 1..Len(jobs) : Collect(i)
    \/ Summary
    \/ \E j \in 1..Len(jobs) : Start(j)
    \/ \E j \in 1..Len(jobs) : ToolRun(j)
    \/ \E j \in 1..Len(jobs) : Finish(j)
    \/ \E j \in 1..Len(jobs) : Rename(j)

PoolInit == InitRun /\ InitPool

PoolSpec ==
    /\ PoolInit
    /\ [][BatchNext]_vars
    /\ WF_vars(JobStep)

(***************************************************************************)
(* Properties.  The environment's part of a call is read from gs and from  *)
(* the call's `original`, not from what the code computed.                 *)
(***************************************************************************)
Src(j) == jobs[j].source_file_path
Out(j) == jobs[j].output_file_path
Returned(j) == jobs[j].pc = "done"

\* Ghostscript exited with status 0 within the 60 s / was still running after them
ExitedZero(j) == ~GsFor(Src(j)).hangs /\ GsFor(Src(j)).status = 0
Hung(j) == GsFor(Src(j)).hangs

\* the size of the output Ghostscript wrote, and of the source before the call
OutSize(j) == GsFor(Src(j)).size
SrcSizeBefore(j) == jobs[j].original.size

\* C1: a call whose tool exits with status 0 and whose output is not smaller
\* than the source (equal size included) returns absent, leaves the source the
\* unmodified original and leaves no temp file.
C1_NoGainKeepsOriginal ==
    \A j \in 1..Len(jobs) :
        (Returned(j) /\ ExitedZero(j) /\ OutSize(j) >= SrcSizeBefore(j))
        => /\ exists(fs, Src(j))
           /\ fs[Src(j)] = jobs[j].original
           /\ ~exists(fs, Out(j))
           /\ jobs[j].result = None

\* C1 witness: a call has returned whose output had exactly the source's size
C1_Witness ==
    \E j \in 1..Len(jobs) :
        Returned(j) /\ ExitedZero(j) /\ OutSize(j) = SrcSizeBefore(j)

\* C2: a call whose tool exits with status 0 and whose output is strictly
\* smaller returns (size read before the tool started, size of the output);
\* the source path then holds the compressed output, of the second size, and
\* the temp path is gone.
C2_GainReplacesSource ==
    \A j \in 1..Len(jobs) :
        (Returned(j) /\ ExitedZero(j) /\ OutSize(j) < SrcSizeBefore(j))
        => /\ exists(fs, Src(j))
           /\ fs[Src(j)] = File(Append(jobs[j].original.data, "gs"), OutSize(j))
           /\ ~exists(fs, Out(j))
           /\ jobs[j].result = <<SrcSizeBefore(j), OutSize(j)>>
           /\ jobs[j].result[2] = getsize(fs, Src(j))

\* C2 witness: a call has returned whose output was strictly smaller
C2_Witness ==
    \E j \in 1..Len(jobs) :
        Returned(j) /\ ExitedZero(j) /\ OutSize(j) < SrcSizeBefore(j)

BatchOver == mode = "batch" /\ pc \in {"collect", "dispatch", "exited"}

\* C3: once optimize_folder has waited for its calls, none of their temp
\* files exists, whatever the outcomes; a call whose tool failed has removed
\* its temp file before it returned.
C3_NoTempLeftBehind ==
    /\ BatchOver => \A j \in 1..Len(jobs) : ~exists(fs, Out(j))
    /\ \A j \in 1..Len(jobs) :
           (Returned(j) /\ ~ExitedZero(j)) => ~exists(fs, Out(j))

\* the names the loop of optimize_folder has looked at so far
Scanned == {listing[k] : k \in {i \in 1..Len(listing) : i < scan_idx}}

\* C4: the calls submitted are exactly those for the entries looked at whose
\* name ends in ".pdf" and does not start with "temp_", one call each; no call
\* has a temp_ file as its source: not the temp file of another call of the
\* run, whose name starts with "temp_", and not the temp file an earlier run
\* left, which is not touched.
C4_OnlyCandidatesSubmitted ==
    /\ mode = "batch" =>
          /\ {Src(j) : j \in 1..Len(jobs)} =
                 {join(source_folder_path, n) :
                     n \in {m \in Scanned : EndsWith(m, DOT_PDF) /\ ~StartsWith(m, TEMP_)}}
          /\ Cardinality({Src(j) : j \in 1..Len(jobs)}) = Len(jobs)
    /\ \A j \in 1..Len(jobs) : ~StartsWith(basename(Src(j)), TEMP_)
    /\ \A j, k \in 1..Len(jobs) :
           Out(j) # <<>> => /\ StartsWith(basename(Out(j)), TEMP_)
                            /\ Out(j) # Src(k)
    /\ exists(fs, join(D, StaleTemp))
    /\ fs[join(D, StaleTemp)] = File(<<"stale">>, 1)

\* C4 witness: the loop is over a listing that holds the stale temp file, and
\* calls were submitted
C4_Witness ==
    /\ mode = "batch"
    /\ scan_idx > Len(listing)
    /\ StaleTemp \in Scanned
    /\ Len(jobs) >= 1

RECURSIVE SumOf(_, _)
\* the sum of the c-th components of the present results of the calls in S
SumOf(S, c) ==
    IF S = {} THEN 0
    ELSE LET j == CHOOSE k \in S : TRUE
         IN  (IF jobs[j].result = None THEN 0 ELSE jobs[j].result[c])
             + SumOf(S \ {j}, c)

\* C5: while the results are collected, and so at the summary, the totals are
\* the sums of the first and of the second components of the present results
\* collected, each once; an absent result adds nothing.
C5_TotalsAreSums ==
    (mode = "batch" /\ pc = "collect")
    => /\ total_initial_size = SumOf(collected, 1)
       /\ total_final_size = SumOf(collected, 2)

\* C5 witness: every result is collected, one of them present and one absent
C5_Witness ==
    /\ mode = "batch"
    /\ pc = "collect"
    /\ collected = 1..Len(jobs)
    /\ \E j, k \in 1..Len(jobs) : jobs[j].result # None /\ jobs[k].result = None

\* the result a call has by its own tool run and its own source alone
OwnResult(j) ==
    IF ExitedZero(j) /\ OutSize(j) < SrcSizeBefore(j)
    THEN <<SrcSizeBefore(j), OutSize(j)>>
    ELSE None

RECURSIVE SumOwn(_, _)
SumOwn(S, c) ==
    IF S = {} THEN 0
    ELSE LET j == CHOOSE k \in S : TRUE
         IN  (IF OwnResult(j) = None THEN 0 ELSE OwnResult(j)[c]) + SumOwn(S \ {j}, c)

\* C6: a call whose process was still running after the 60 s has terminated
\* it, returns absent and leaves its source as it was; every other call of the
\* batch has the result its own tool run gives, and the totals hold nothing of
\* the timed-out call.
C6_TimeoutIsLocal ==
    \A j \in 1..Len(jobs) :
        (Returned(j) /\ Hung(j))
        => /\ jobs[j].terminated
           /\ jobs[j].result = None
           /\ exists(fs, Src(j))
           /\ fs[Src(j)] = jobs[j].original
           /\ \A k \in 1..Len(jobs) : Returned(k) => jobs[k].result = OwnResult(k)
           /\ (mode = "batch" /\ pc = "collect")
              => /\ total_initial_size = SumOwn({k \in collected : ~Hung(k)}, 1)
                 /\ total_final_size = SumOwn({k \in collected : ~Hung(k)}, 2)

\* C6 witness: a batch in which one call timed out and another replaced its
\* source, with both results collected
C6_Witness ==
    /\ mode = "batch"
    /\ pc = "collect"
    /\ collected = 1..Len(jobs)
    /\ \E j, k \in 1..Len(jobs) :
          /\ Hung(j) /\ Returned(j)
          /\ Returned(k) /\ jobs[k].result # None

\* C7: at each positional path, an existing directory starts batch mode on
\* it, an existing file starts single-file mode with verbose on, and a path
\* that is neither (and is not ".") ends the process with status 1.
C7_DispatchByKind ==
    [][AtItem =>
         LET item == args_src[item_idx]
         IN  /\ isdir(fs, item) =>
                   /\ pc' = "scan"
                   /\ mode' = "batch"
                   /\ source_folder_path' = item
             /\ (~isdir(fs, item) /\ isfile(fs, item)) =>
                   \/ pc' = "exited"
                   \/ /\ pc' = "file"
                      /\ jobs'[1].source_file_path = item
                      /\ jobs'[1].verbose
             /\ (~isdir(fs, item) /\ ~isfile(fs, item) /\ item # <<".">>) =>
                   /\ pc' = "exited"
                   /\ exit_status' = <<1>>
    ]_vars

\* the path single-file mode is about to be called on, if any
FileModeTarget ==
    LET item == args_src[item_idx]
    IN  IF item = <<".">> THEN cwd ELSE item

EntersFileMode ==
    /\ AtItem
    /\ \/ args_src[item_idx] = <<".">>
       \/ ~isdir(fs, args_src[item_idx]) /\ isfile(fs, args_src[item_idx])

\* C8: single-file mode on a path that does not end in ".pdf" ends the
\* process with a non-zero status in that very step: no size is read, no temp
\* path made, no process started, no file changed, nothing printed.
C8_NonPdfExitsFirst ==
    [][(EntersFileMode /\ ~EndsWith(FileModeTarget, DOT_PDF))
       => /\ pc' = "exited"
          /\ exit_status' # None
          /\ exit_status' # <<0>>
          /\ fs' = fs
          /\ jobs' = jobs
          /\ uuid_count' = uuid_count
          /\ printed' = printed
    ]_vars

\* C8 witness: the process has exited at a positional path that is an
\* existing file without the ".pdf" suffix
C8_Witness ==
    /\ pc = "exited"
    /\ exit_status = <<1>>
    /\ item_idx <= Len(args_src)
    /\ args_src[item_idx] = join(D, Notes)

\* a call of the batch is submitted and no worker has taken it up yet
SomeQueued == mode = "batch" /\ \E j \in 1..Len(jobs) : jobs[j].pc = "queued"

\* C10: never more than 5 calls of a batch are executing, and whenever calls
\* wait in the queue there comes a moment when every call submitted has been
\* taken up by a worker.
C10_PoolBoundAndProgress ==
    /\ [](Cardinality(Executing) <= 5)
    /\ [](SomeQueued => <>(~SomeQueued))

\* C10 witness: five calls are executing and a sixth is waiting in the queue
C10_Witness ==
    /\ mode = "batch"
    /\ Cardinality(Executing) = 5
    /\ \E j \in 1..Len(jobs) : jobs[j].pc = "queued"

\* the text of a count below 1000^5 as the claim gives it: the count divided
\* by 1000^k to two decimals, k the number of digits after the first
ClaimedText(bytes) ==
    LET k == Len(bytes) - 1
        f == IF k = 0 THEN 0 ELSE bytes[2]
        up == (f % 10 > 5) \/ (f % 10 = 5 /\ \E i \in 3..Len(bytes) : bytes[i] # 0)
        h == bytes[1] * 100 + (f \div 10) + (IF up THEN 1 ELSE 0)
    IN  [whole |-> h \div 100, cents |-> h % 100]

\* C9: for every byte count the function returns a text: the count divided by
\* 1000^k to two decimals with the k-th unit of bytes, KB, MB, GB, TB, k being
\* the one that brings the value below 1000.
C9_FormatsEveryCount ==
    fmt_out.state = "returned"
    => /\ ~fmt_out.none
       /\ Len(fmt_in) <= Len(UNITS)
       /\ fmt_out.unit = UNITS[Len(fmt_in)]
       /\ fmt_out.whole = ClaimedText(fmt_in).whole
       /\ fmt_out.cents = ClaimedText(fmt_in).cents

\* optimize_folder has returned or the process has ended inside it
FolderLeft == mode = "batch" /\ pc \in {"dispatch", "exited"}

\* the statistics line of the batch: the totals and their ratio
SummaryPrinted ==
    \E m \in printed : m.kind = "summary" /\ m.a = total_initial_size
                       /\ m.b = total_final_size

\* nothing is added to the totals and nothing of the summary is printed while
\* a call of the batch is queued or running
TotalsAfterJobs ==
    (mode = "batch" /\ (total_initial_size # 0 \/ total_final_size # 0
                        \/ collected # {} \/ pc \in {"collect", "dispatch", "exited"}))
    => (scan_idx > Len(listing) /\ AllDone /\ Executing = {})

\* C11: the first addition to the totals and the summary come only after
\* every submitted call has finished, no worker is running or touching files
\* then, and every batch prints its summary (once: optimize_folder is left
\* with the statistics line printed).
C11_SummaryOncePerBatch ==
    /\ TotalsAfterJobs
    /\ FolderLeft => SummaryPrinted

\* of the two endings of a call, replacing the source (line 139) and deleting
\* the temp file (line 156), exactly one has been run
OneEnding(j) == jobs[j].replaced # jobs[j].deleted

\* a call whose process exited with status 0 has run exactly one ending
OneEndingAfterSuccess ==
    \A j \in 1..Len(jobs) :
        (Returned(j) /\ ~jobs[j].raised /\ ExitedZero(j)) => OneEnding(j)

\* C12: every call that has returned, whatever its outcome (replaced, no
\* improvement, non-zero exit, timeout), has done exactly one of the two:
\* replaced the source with the temp file, or deleted the temp file.
C12_ReplaceOrDelete ==
    \A j \in 1..Len(jobs) :
        (Returned(j) /\ ~jobs[j].raised) => OneEnding(j)

\* the process has ended inside optimize_folder: at a directory of the
\* command line, not after the loop and not at a path main rejects
EndedInFolder ==
    /\ mode = "batch"
    /\ pc = "exited"
    /\ item_idx <= Len(args_src)
    /\ args_src[item_idx] # <<".">>
    /\ isdir(fs, args_src[item_idx])

\* a call whose process failed or was terminated
Failed(j) == Returned(j) /\ ~jobs[j].raised /\ ~ExitedZero(j)

\* the process ends inside optimize_folder only with no byte counted
EndedInFolderOnlyAtZero == EndedInFolder => total_initial_size = 0

\* C13: in a batch a failed call (non-zero exit or timeout) yields an absent
\* result, the other calls still run to completion, and the process never
\* ends inside optimize_folder: it returns after its summary, whatever the
\* outcomes, all calls failing included.
C13_FailuresStayLocal ==
    /\ \A j \in 1..Len(jobs) : Failed(j) => jobs[j].result = None
    /\ BatchOver => AllDone
    /\ ~EndedInFolder

\* C14: when the results have all been collected and total_initial_size is 0
\* (no candidate in the directory, or no call returned a pair), the next step
\* is the arithmetic fault: the process ends with a non-zero status and
\* neither the totals nor a compression ratio is printed.
C14_ZeroTotalFaults ==
    [][(pc = "collect" /\ collected = 1..Len(jobs) /\ total_initial_size = 0)
       => /\ pc' = "exited"
          /\ exit_status' = <<1>>
          /\ \A m \in printed' \ printed : m.kind \notin {"summary", "ratio"}]_vars

\* C14 witness: the process has ended inside optimize_folder with status 1,
\* every call of the batch having returned absent
C14_Witness ==
    /\ EndedInFolder
    /\ exit_status = <<1>>
    /\ jobs # <<>>
    /\ collected = 1..Len(jobs)
    /\ \A j \in 1..Len(jobs) : jobs[j].result = None /\ ~jobs[j].raised
    /\ total_initial_size = 0
    /\ ~SummaryPrinted

\* the command line loop is at a path "."
AtDot == AtItem /\ args_src[item_idx] = <<".">>

\* the step ends the process with status 1: no call is made, no temp name is
\* drawn, no file is changed
FatalStep ==
    /\ pc' = "exited"
    /\ exit_status' = <<1>>
    /\ fs' = fs
    /\ jobs' = jobs
    /\ uuid_count' = uuid_count

\* the step starts optimize_file on the working directory, verbose as given
\* on the command line, with Ghostscript launched on it
FileModeOnCwdStep ==
    /\ pc' = "file"
    /\ mode' = "file"
    /\ Len(jobs') = 1
    /\ jobs'[1].source_file_path = cwd
    /\ jobs'[1].verbose = args_verbose
    /\ jobs'[1].pc = "launched"
    /\ fs' = fs

\* C15 as amended: "." goes to single-file mode on the working directory's
\* path with verbose as given, never to batch mode; unless that path ends in
\* ".pdf" the step ends the process with status 1 before any tool is started
\* or file changed, and if it does end in ".pdf" the tool is started on it.
C15_DotIsFileMode ==
    [][AtDot => IF EndsWith(cwd, DOT_PDF) THEN FileModeOnCwdStep ELSE FatalStep]_vars

\* C15 as stated: "." always ends the process with status 1 before any tool
\* is started or file changed, whatever the working directory is.
C15_DotAlwaysFatal == [][AtDot => FatalStep]_vars

\* C15 witness: the process has ended at "." in a working directory whose
\* path does not end in ".pdf", verbose given, nothing launched for it
C15_Witness ==
    /\ pc = "exited"
    /\ exit_status = <<1>>
    /\ item_idx <= Len(args_src)
    /\ args_src[item_idx] = <<".">>
    /\ cwd = CwdPlain
    /\ args_verbose
    /\ \A j \in 1..Len(jobs) : Src(j) # cwd

\* the call j of the batch has drawn its temp path
HasTemp(j) == jobs[j].pc \notin {"queued"} /\ Out(j) # <<>>

\* the source and temp paths of the calls of a batch are pairwise distinct
PathsDisjoint ==
    mode = "batch"
    => \A j, k \in 1..Len(jobs) :
          j # k => /\ Src(j) # Src(k)
                   /\ HasTemp(k) => Src(j) # Out(k)
                   /\ (HasTemp(j) /\ HasTemp(k)) => Out(j) # Out(k)

\* the file at p is the same before and after the step
SameFile(p) ==
    \/ p \notin DOMAIN fs /\ p \notin DOMAIN fs'
    \/ p \in DOMAIN fs /\ p \in DOMAIN fs' /\ fs'[p] = fs[p]

\* the step is one of call j: its record changes
StepOf(j) == Len(jobs') = Len(jobs) /\ jobs'[j] # jobs[j]

\* a step of a call changes no file but its own source and temp, and leaves
\* the totals alone; a step that changes a file is a step of one call
OwnFilesOnly ==
    (mode = "batch" /\ mode' = "batch")
    => /\ \A j \in 1..Len(jobs) :
             StepOf(j)
             => /\ \A p \in (DOMAIN fs \cup DOMAIN fs')
                            \ {Src(j), jobs'[j].output_file_path} : SameFile(p)
                /\ total_initial_size' = total_initial_size
                /\ total_final_size' = total_final_size
                /\ \A k \in 1..Len(jobs) \ {j} : jobs'[k] = jobs[k]
       /\ fs' # fs => \E j \in 1..Len(jobs) : StepOf(j)

\* C16: in a batch, under every interleaving, the calls' source and temp
\* paths are pairwise distinct, a step of a call changes no file other than
\* its own source and temp, and no call's step writes the totals.
C16_JobsShareNoFile == []PathsDisjoint /\ [][OwnFilesOnly]_vars

\* C16 witness: two calls of a batch are in progress at once, one between
\* deleting its source and renaming its temp file, the other with its output
\* written and not yet examined
C16_Witness ==
    /\ mode = "batch"
    /\ \E j, k \in 1..Len(jobs) :
          /\ j # k
          /\ jobs[j].pc = "rename"
          /\ jobs[k].pc = "waited"
          /\ exists(fs, Out(j))
          /\ exists(fs, Out(k))

\* the path p holds the document of call j whole: the original as the call
\* found it, or the complete output Ghostscript made of it
HoldsOriginal(j, p) == exists(fs, p) /\ fs[p] = jobs[j].original
HoldsOutput(j, p) ==
    /\ exists(fs, p)
    /\ fs[p].type = "file"
    /\ fs[p].data = Append(jobs[j].original.data, "gs")

\* the call j has started and has not raised
InProgressOrReturned(j) == jobs[j].pc # "queued" /\ ~jobs[j].raised

\* C17: the source of a call is missing only between its deletion and the
\* rename, and then the process has exited with status 0 and the temp file
\* was measured strictly smaller; at every state of a call its source path or
\* its temp path holds a complete version of the document.
C17_SourceNeverLost ==
    \A j \in 1..Len(jobs) :
        InProgressOrReturned(j)
        => /\ ~exists(fs, Src(j))
              => /\ jobs[j].pc = "rename"
                 /\ ExitedZero(j)
                 /\ jobs[j].returncode = <<0>>
                 /\ OutSize(j) < SrcSizeBefore(j)
                 /\ jobs[j].output_file_size < jobs[j].source_file_size
           /\ \/ HoldsOriginal(j, Src(j))
              \/ HoldsOutput(j, Src(j))
              \/ HoldsOutput(j, Out(j))
           /\ jobs[j].replaced => HoldsOutput(j, Src(j)) /\ ~exists(fs, Out(j))

\* C17 witness: a call has deleted its source and not yet renamed its temp
\* file, which holds the complete output
C17_Witness ==
    \E j \in 1..Len(jobs) :
        /\ jobs[j].pc = "rename"
        /\ ~exists(fs, Src(j))
        /\ HoldsOutput(j, Out(j))

\* C18: once a call has returned, whatever its outcome, its source path
\* exists and what is there is no larger than the source was when the call
\* read its size.
C18_SourceKeptNoLarger ==
    \A j \in 1..Len(jobs) :
        (Returned(j) /\ ~jobs[j].raised)
        => /\ exists(fs, Src(j))
           /\ getsize(fs, Src(j)) <= SrcSizeBefore(j)

\* C18 witness: two calls of a batch have returned, one having replaced its
\* source with a smaller file, one terminated after the 60 s with its source
\* as large as before
C18_Witness ==
    \E j, k \in 1..Len(jobs) :
        /\ Returned(j) /\ jobs[j].replaced
        /\ getsize(fs, Src(j)) < SrcSizeBefore(j)
        /\ Returned(k) /\ Hung(k) /\ jobs[k].terminated
        /\ exists(fs, Src(k))
        /\ getsize(fs, Src(k)) = SrcSizeBefore(k)

\* some call of the batch returned a pair
SomePresent == \E j \in 1..Len(jobs) : jobs[j].result # None

\* every pair returned has its second size strictly below its first
PairsShrink ==
    \A j \in 1..Len(jobs) :
        jobs[j].result # None => jobs[j].result[2] < jobs[j].result[1]

\* with a pair among the results, the totals at the summary have final below
\* initial and initial positive, so that 100 * (1 - final / initial) is
\* strictly above 0 and at most 100
TotalsShrink ==
    (mode = "batch" /\ pc \in {"collect", "dispatch"}
     /\ collected = 1..Len(jobs) /\ SomePresent)
    => /\ total_final_size < total_initial_size
       /\ total_initial_size > 0
       /\ 100 * (total_initial_size - total_final_size) > 0
       /\ 100 * (total_initial_size - total_final_size) <= 100 * total_initial_size

\* the ratios printed, in hundredths of a percent
RatiosPrinted == {m.a : m \in {n \in printed : n.kind = "ratio"}}

\* C19 as amended: every pair returned has final < initial; with a pair among
\* the results the totals have final < initial and initial > 0 and the ratio
\* computed is above 0 and at most 100; the ratio reported, a text of two
\* decimals, is from 0.00% to 100.00%, 0.00% when less than 0.005% is saved.
C19_RatioWithinRange ==
    /\ PairsShrink
    /\ TotalsShrink
    /\ \A r \in RatiosPrinted : r >= 0 /\ r <= 10000

\* C19 as stated: the ratio reported is strictly above 0%.
C19_RatioReportedPositive ==
    /\ PairsShrink
    /\ TotalsShrink
    /\ \A r \in RatiosPrinted : r > 0 /\ r <= 10000

\* C19 witness: a batch with a pair among its results has printed its
\* summary, with a ratio above 0.00%
C19_Witness ==
    /\ FolderLeft
    /\ SomePresent
    /\ SummaryPrinted
    /\ total_final_size < total_initial_size
    /\ \E r \in RatiosPrinted :
          r = CompressionRatio(total_initial_size, total_final_size) /\ r > 0

\* the path the loop is at is one main or optimize_file rejects: "." in a
\* working directory not named *.pdf, a file not named *.pdf, or a path that
\* is neither directory nor file
FatalPath ==
    /\ AtItem
    /\ LET item == args_src[item_idx]
       IN  \/ item = <<".">> /\ ~EndsWith(cwd, DOT_PDF)
           \/ item # <<".">> /\ ~isdir(fs, item) /\ isfile(fs, item)
              /\ ~EndsWith(item, DOT_PDF)
           \/ item # <<".">> /\ ~isdir(fs, item) /\ ~isfile(fs, item)

\* the paths before the loop's position, and no others, have been processed to
\* their end, in the order given; while the loop is between two paths no call
\* is queued or running
HandledInOrder ==
    /\ handled = [i \in 1..(item_idx - 1) |-> i]
    /\ pc = "dispatch" => \A j \in 1..Len(jobs) : Returned(j)

\* the step at a rejected path ends the process with status 1 and changes
\* neither a file nor what has been processed
FatalEndsAtOnce ==
    FatalPath => /\ pc' = "exited"
                 /\ exit_status' = <<1>>
                 /\ fs' = fs
                 /\ handled' = handled
                 /\ item_idx' = item_idx

\* C20: the paths are validated one at a time as the loop reaches them: a
\* fatal path error at position k ends the process when every path before k
\* has been processed to its end (files replaced stay replaced) and no path
\* after k is ever processed, the process taking no step once it has ended.
C20_LazyValidation ==
    /\ []HandledInOrder
    /\ [][FatalEndsAtOnce]_vars
    /\ [][pc # "exited"]_vars

\* C20 witness: the process has ended at the second path, a rejected one,
\* after the first path's PDF was replaced by its smaller output
C20_Witness ==
    /\ pc = "exited"
    /\ exit_status = <<1>>
    /\ item_idx = 2
    /\ handled = <<1>>
    /\ Len(args_src) >= 2
    /\ ~isdir(fs, args_src[2])
    /\ exists(fs, join(D, Cand(1)))
    /\ fs[join(D, Cand(1))].data = <<Letters[1], "gs">>

====
